---- MODULE Spec2Model ----
(***************************************************************************)
(* Model of GBDT(large).py: a single script that maps a cached training    *)
(* set from two binary files, flattens it, trains a boosted-tree           *)
(* classifier, scores it on a test set and renders two plots.              *)
(*                                                                         *)
(* Files are sequences of 4-byte words.  A float32 element is one word, an *)
(* int64 element two words (little-endian: low word first).  Arrays are    *)
(* views: a base buffer, a dtype, a shape and element strides, read        *)
(* through the buffer exactly as numpy indexes a C-contiguous mapping.     *)
(*                                                                         *)
(* Spec     : one run of the script (the __main__ block).                  *)
(* UnitSpec : the script's functions and library calls applied to inputs   *)
(*            drawn from bounded sets.                                     *)
(***************************************************************************)
EXTENDS Integers, Sequences, FiniteSets, TLC

(* ------------------------------ bounds -------------------------------- *)
\* most labels a label file holds
MaxL == 2
\* number of content patterns files and data sets are drawn from
Seeds == 2
\* longest label / prediction vector handed to the metric functions
MaxTest == 3
\* number of distinct classes the metric functions' inputs are drawn from
DrawnClasses == 3
\* test-set sizes of a run range over SampleSize-1 .. SampleSize-1+ExtraTest
ExtraTest == 1

(* -------------------------- program constants ------------------------- *)
Channels == 1
Height == 28
Width == 28
NumClass == 10
SampleSize == 25
Float32Bytes == 4
Int64Bytes == 8

train_images_path == "./mmap_data/large/rotated_train_images.dat"
train_labels_path == "./mmap_data/large/rotated_train_labels.npy"
Paths == {train_images_path, train_labels_path}

confusion_matrix_png == "./image/gbdt/large/confusion_matrix.png"
images_25_png == "./image/gbdt/large/25_images.png"
\* os.path.dirname of both output files, as path components
OutDir == <<"image", "gbdt", "large">>

SampleWords == Channels * Height * Width

(* ------------------------------ helpers ------------------------------- *)
RECURSIVE Prod(_)
Prod(s) == IF s = <<>> THEN 1 ELSE Head(s) * Prod(Tail(s))

RECURSIVE SumSeq(_)
SumSeq(s) == IF s = <<>> THEN 0 ELSE Head(s) + SumSeq(Tail(s))

Range(s) == {s[i] : i \in 1..Len(s)}

(* ------------------------------- errors ------------------------------- *)
\* kind: the exception class; raisedBy: the function whose code raised it;
\* line: the script line that raised it or made the failing call (0: none);
\* msg: the parts of the message
NoErr == [kind |-> "none", raisedBy |-> "none", line |-> 0, msg |-> <<>>]
Err(kind, raisedBy, line, msg) ==
    [kind |-> kind, raisedBy |-> raisedBy, line |-> line, msg |-> msg]
AtLine(e, line) == [e EXCEPT !.line = line]

(* ------------------------------- files -------------------------------- *)
NoFile == [exists |-> FALSE, words |-> <<>>]
File(ws) == [exists |-> TRUE, words |-> ws]
FileBytes(f) == Float32Bytes * Len(f.words)

\* the pixel word at 1-based position i of an image file of pattern s
PixelWord(s, i) == (s + 3 * i) % 251
ImageWords(n, s) == [i \in 1..n |-> PixelWord(s, i)]
\* the label file of pattern s: label k is the word pair <<class, 0>>
LabelWords(n, s) ==
    [i \in 1..n |-> IF i % 2 = 1 THEN (s + 3 * ((i + 1) \div 2)) % NumClass ELSE 0]

ItemBytes(dtype) == IF dtype = "int64" THEN Int64Bytes ELSE Float32Bytes
ItemWords(dtype) == ItemBytes(dtype) \div Float32Bytes

(* ------------------------------- views -------------------------------- *)
NoView == [base |-> "none", dtype |-> "none", mode |-> "none",
           shape |-> <<>>, strides |-> <<>>]
\* strides, in elements, of a C-contiguous array of the given shape
CStrides(shape) ==
    [k \in 1..Len(shape) |-> Prod(SubSeq(shape, k + 1, Len(shape)))]
View(base, dtype, mode, shape) ==
    [base |-> base, dtype |-> dtype, mode |-> mode,
     shape |-> shape, strides |-> CStrides(shape)]
\* 0-based element offset of the 0-based index tuple idx
Offset(v, idx) == SumSeq([k \in 1..Len(idx) |-> idx[k] * v.strides[k]])
ViewLen(v) == v.shape[1]

(* ------------------------------ np.memmap ----------------------------- *)
\* The file as open() leaves it: "w+" truncates, "r" and "r+" leave it alone.
Opened(f, mode) == IF mode = "w+" THEN File(<<>>) ELSE f

\* The file after numpy has grown it to nbytes ("w+" and "r+" only).
Grown(f, mode, nbytes) ==
    IF mode \in {"w+", "r+"} /\ FileBytes(f) < nbytes
    THEN File([i \in 1..(nbytes \div Float32Bytes) |->
                  IF i <= Len(f.words) THEN f.words[i] ELSE 0])
    ELSE f

\* np.memmap(filename, dtype=dtype, mode=mode, shape=shape) on the files
\* `files`; shape <<>> stands for shape=None.  The result holds the error
\* raised (NoErr: none), the view returned and the files afterwards.
memmap(files, filename, dtype, mode, shape) ==
    LET f == files[filename]
        fail(kind, text, fl) ==
            [err |-> Err(kind, "np.memmap", 0, <<text, filename>>),
             view |-> NoView, fs |-> fl]
    IN  IF mode = "w+" /\ shape = <<>>
        THEN fail("ValueError", "shape must be given if mode == 'w+'", files)
        ELSE IF mode # "w+" /\ ~f.exists
        THEN fail("FileNotFoundError", "No such file or directory", files)
        ELSE
        LET o == Opened(f, mode)
            files1 == [files EXCEPT ![filename] = o]
            flen == FileBytes(o)
        IN  IF shape = <<>> /\ flen % ItemBytes(dtype) # 0
            THEN fail("ValueError",
                      "Size of available data is not a multiple of the data-type size",
                      files1)
            ELSE
            LET shp == IF shape = <<>> THEN <<flen \div ItemBytes(dtype)>> ELSE shape
                nbytes == Prod(shp) * ItemBytes(dtype)
                g == Grown(o, mode, nbytes)
                files2 == [files EXCEPT ![filename] = g]
            IN  IF FileBytes(g) = 0
                THEN fail("ValueError", "cannot mmap an empty file", files2)
                ELSE IF nbytes > FileBytes(g)
                THEN fail("ValueError", "mmap length is greater than file size", files2)
                ELSE [err |-> NoErr, view |-> View(filename, dtype, mode, shp),
                      fs |-> files2]

\* the mode the two mappings of load_from_mmap are opened in (mode='r')
MapModeTruncating == "w+"
MapModeGrowing == "r+"
MapMode == "r"
\* the mode of the script's own mapping of the label file
MainMapMode == "r"

(* ---------------------------- load_from_mmap -------------------------- *)
\* The result of a call: the error raised (NoErr: returned), the two views,
\* the files afterwards, the paths np.memmap was called on, in order, and
\* the paths os.path.exists was asked about (`or` short-circuits).
LoadResult(e, images, labels, files, calls, checked) ==
    [err |-> e, images |-> images, labels |-> labels, fs |-> files,
     calls |-> calls, checked |-> checked]

MissingFileError(images_path, labels_path) ==
    Err("FileNotFoundError", "load_from_mmap", 12,
        <<"mmap file not found, check the paths:", images_path, labels_path>>)

\* lines 13-15, reached when the existence check let the call through
MapBoth(files, images_path, labels_path, image_shape, checked) ==
    LET m1 == memmap(files, images_path, "float32", MapMode, image_shape)
        m2 == memmap(m1.fs, labels_path, "int64", MapMode, <<>>)
    IN  IF m1.err # NoErr
        THEN LoadResult(AtLine(m1.err, 13), NoView, NoView, m1.fs,
                        <<images_path>>, checked)
        ELSE IF m2.err # NoErr
        THEN LoadResult(AtLine(m2.err, 14), NoView, NoView, m2.fs,
                        <<images_path, labels_path>>, checked)
        ELSE LoadResult(NoErr, m1.view, m2.view, m2.fs,
                        <<images_path, labels_path>>, checked)

\* the check written with `and`: raises only when both files are missing
load_from_mmap_and(files, images_path, labels_path, image_shape) ==
    LET checked == {images_path} \cup
                   (IF files[images_path].exists THEN {} ELSE {labels_path})
    IN  IF ~files[images_path].exists /\ ~files[labels_path].exists
        THEN LoadResult(MissingFileError(images_path, labels_path),
                        NoView, NoView, files, <<>>, checked)
        ELSE MapBoth(files, images_path, labels_path, image_shape, checked)

load_from_mmap(files, images_path, labels_path, image_shape) ==
    LET checked == {images_path} \cup
                   (IF files[images_path].exists THEN {labels_path} ELSE {})
    IN  IF ~files[images_path].exists \/ ~files[labels_path].exists
        THEN LoadResult(MissingFileError(images_path, labels_path),
                        NoView, NoView, files, <<>>, checked)
        ELSE MapBoth(files, images_path, labels_path, image_shape, checked)

(* ------------------------------- reshape ------------------------------ *)
\* strides, in elements, of a Fortran-contiguous array of the given shape
FStrides(shape) == [k \in 1..Len(shape) |-> Prod(SubSeq(shape, 1, k - 1))]

\* the shape with its -1 entry, if any, replaced by the inferred length;
\* <<>> when numpy raises (two unknowns, or the sizes do not divide)
Inferred(total, newshape) ==
    LET unknown == {k \in 1..Len(newshape) : newshape[k] = -1}
        known == Prod([k \in 1..Len(newshape) |->
                          IF newshape[k] = -1 THEN 1 ELSE newshape[k]])
    IN  IF unknown = {}
        THEN IF known = total THEN newshape ELSE <<>>
        ELSE IF Cardinality(unknown) > 1 \/ known = 0 \/ total % known # 0
        THEN <<>>
        ELSE [k \in 1..Len(newshape) |->
                 IF newshape[k] = -1 THEN total \div known ELSE newshape[k]]

\* a reshape that lays the new axes out column-major (order='F')
reshape_fortran(v, newshape) ==
    LET shp == Inferred(Prod(v.shape), newshape)
    IN  IF shp = <<>>
        THEN [err |-> Err("ValueError", "ndarray.reshape", 0, <<"cannot reshape array">>),
              view |-> NoView]
        ELSE [err |-> NoErr,
              view |-> [v EXCEPT !.shape = shp, !.strides = FStrides(shp)]]

\* ndarray.reshape(newshape) of a C-contiguous array: a view of the same
\* buffer (every array of the script is C-contiguous when it is reshaped)
reshape(v, newshape) ==
    LET shp == Inferred(Prod(v.shape), newshape)
    IN  IF shp = <<>>
        THEN [err |-> Err("ValueError", "ndarray.reshape", 0, <<"cannot reshape array">>),
              view |-> NoView]
        ELSE [err |-> NoErr,
              view |-> [v EXCEPT !.shape = shp, !.strides = CStrides(shp)]]

\* ndarray.astype(dtype): a copy with every element converted.  The copy of
\* a buffer that is never written is represented by the buffer it copies;
\* uint8 -> float32 keeps every value (0..255 are exact in float32).
astype(v, dtype) == [v EXCEPT !.dtype = dtype, !.mode = "copy"]

(* ------------------------------- metrics ------------------------------ *)
RECURSIVE SortedSeq(_)
SortedSeq(S) ==
    IF S = {} THEN <<>>
    ELSE LET m == CHOOSE x \in S : \A y \in S : x <= y
         IN  <<m>> \o SortedSeq(S \ {m})

\* sklearn's accuracy_score(y_true, y_pred): the mean of y_true == y_pred,
\* kept as the fraction num / den
accuracy_score(y_true, y_pred) ==
    [num |-> SumSeq([i \in 1..Len(y_true) |->
                        IF y_true[i] = y_pred[i] THEN 1 ELSE 0]),
     den |-> Len(y_true)]

\* accuracy_score(labels, predictions, normalize=False): the match count
calculate_accuracy_count(predictions, labels) ==
    [num |-> accuracy_score(labels, predictions).num, den |-> 1]

calculate_accuracy(predictions, labels) == accuracy_score(labels, predictions)

\* sklearn's unique_labels: the sorted classes that occur in either vector
unique_labels(y_true, y_pred) == SortedSeq(Range(y_true) \cup Range(y_pred))

\* the matrix over the classes `ls`: row i, column j counts the samples whose
\* row-side class is ls[i] and whose column-side class is ls[j]
Counts(ls, rows, cols) ==
    [i \in 1..Len(ls) |-> [j \in 1..Len(ls) |->
        Cardinality({k \in 1..Len(rows) : rows[k] = ls[i] /\ cols[k] = ls[j]})]]

\* the two vectors taken in the other order: rows are predicted classes
confusion_matrix_swapped(y_true, y_pred) ==
    Counts(unique_labels(y_true, y_pred), y_pred, y_true)

\* sklearn's confusion_matrix(y_true, y_pred) with labels=None, as the script
\* calls it: the classes are those of unique_labels, in sorted order
confusion_matrix(y_true, y_pred) ==
    Counts(unique_labels(y_true, y_pred), y_true, y_pred)

(* ----------------------------- directories ---------------------------- *)
\* The state of ./image/gbdt/large is the number of leading components of
\* OutDir that exist: 0 (nothing) .. Len(OutDir) (the directory is there).
\* a script without the makedirs call
makedirs_missing(depth) == depth
\* os.makedirs(os.path.dirname(save_path), exist_ok=True)
makedirs(depth) == Len(OutDir)
\* plt.savefig(path) writes the file iff its parent directory exists
CanSave(depth) == depth = Len(OutDir)

(* ------------------------------ the script ---------------------------- *)
\* line 57: len(train_labels), with the mapping read as bytes (no dtype)
num_samples_bytes(labels_view) == ViewLen(labels_view) * Int64Bytes
\* line 57: num_train_samples = len(train_labels)
num_samples(labels_view) == ViewLen(labels_view)
\* line 58: train_image_shape = (num_train_samples, 1, 28, 28)
image_shape(n) == <<n, Channels, Height, Width>>
\* line 102: labels = [str(i) for i in range(10)]
tick_labels == [i \in 1..NumClass |-> ToString(i - 1)]

VARIABLES
    unit,               \* "__main__", or the function a UnitSpec behaviour calls
    pc,                 \* the script line about to run; "done"; "failed"
    fs,                 \* the two training files
    fs0,                \* the two training files at program start
    dirDepth,           \* the state of the output directory
    dirDepth0,          \* the state of the output directory at program start
    err,                \* the exception that ended the run (NoErr: none)
    mmapCalls,          \* every np.memmap call made so far: [path, line, mode]
    checkedPaths,       \* the paths os.path.exists has been asked about
    args,               \* the arguments of the last load_from_mmap call
    train_labels, num_train_samples, train_image_shape,
    X_train, y_train, X_train_flat,
    test_dataset,       \* [n, seed]: the test split the loader returned
    X_test, y_test, y_pred,
    accuracy, cm, labels,
    sample,             \* lines 107-110: indices and the sampled labels
    saved               \* the output files written so far

vars == <<unit, pc, fs, fs0, dirDepth, dirDepth0, err, mmapCalls, checkedPaths, args,
          train_labels, num_train_samples, train_image_shape,
          X_train, y_train, X_train_flat, test_dataset, X_test, y_test,
          y_pred, accuracy, cm, labels, sample, saved>>

trainVars == <<train_labels, num_train_samples, train_image_shape,
               X_train, y_train, X_train_flat>>
testVars == <<test_dataset, X_test, y_test>>
evalVars == <<y_pred, accuracy, cm, labels, sample>>
fileVars == <<fs, fs0, dirDepth0, mmapCalls, checkedPaths, args>>

NoArgs == [images_path |-> "none", labels_path |-> "none", image_shape |-> <<>>]
NoData == [n |-> 0, seed |-> 0]
NoAccuracy == [num |-> 0, den |-> 0]
NoSample == [indices |-> <<>>, labels |-> <<>>, preds |-> <<>>]

\* the uint8 pixel at 0-based offset off of the test split of pattern s
TestByte(s, off) == (s + 7 * off) % 256
\* the class of test sample i: pattern 0 cycles through all classes, pattern
\* s > 0 only through the classes 0..s
TestLabel(s, i) == IF s = 0 THEN i % NumClass ELSE i % (s + 1)
\* the trainer is opaque; its predictions are drawn from this family: all
\* right (k = 0), all wrong (k = 1), every k-th wrong (k > 1)
Predictions(y, k) ==
    [i \in 1..Len(y) |->
        IF k = 1 \/ (k > 1 /\ i % k = 0) THEN (y[i] + 1) % NumClass ELSE y[i]]

\* the element of view v at the 0-based index tuple idx
Read(v, idx) ==
    LET off == Offset(v, idx)
    IN  IF v.base \in Paths
        THEN IF v.dtype = "int64"
             THEN LET lo == fs[v.base].words[2 * off + 1]
                      hi == fs[v.base].words[2 * off + 2]
                  IN  \* lo + 2^32 * hi; a value past 32 bits is kept as the pair
                      IF hi = 0 THEN lo ELSE [hi |-> hi, lo |-> lo]
             ELSE fs[v.base].words[off + 1]
        ELSE TestByte(test_dataset.seed, off)

\* image files of a whole number of samples, and of one word more
ImageLens ==
    {n \in 0..((MaxL + 1) * SampleWords) : n % SampleWords \in {0, 1}}
ImageFiles ==
    {NoFile} \cup {File(ImageWords(n, s)) : n \in ImageLens, s \in 0..(Seeds - 1)}
LabelFiles ==
    {NoFile} \cup
    {File(LabelWords(n, s)) : n \in 0..(ItemWords("int64") * MaxL), s \in 0..(Seeds - 1)}
TestSizes == (SampleSize - 1)..(SampleSize - 1 + ExtraTest)

Blank ==
    /\ err = NoErr /\ mmapCalls = <<>> /\ checkedPaths = {} /\ args = NoArgs
    /\ train_labels = NoView /\ num_train_samples = 0 /\ train_image_shape = <<>>
    /\ X_train = NoView /\ y_train = NoView /\ X_train_flat = NoView
    /\ test_dataset = NoData /\ X_test = NoView /\ y_test = <<>>
    /\ y_pred = <<>> /\ accuracy = NoAccuracy /\ cm = <<>> /\ labels = <<>>
    /\ sample = NoSample /\ saved = {}

Init ==
    /\ unit = "__main__" /\ pc = "l56"
    /\ \E imf \in ImageFiles, lf \in LabelFiles :
          fs = [p \in Paths |-> IF p = train_images_path THEN imf ELSE lf]
    /\ fs0 = fs
    /\ dirDepth \in 0..Len(OutDir)
    /\ dirDepth0 = dirDepth
    /\ Blank

Fail(e) == pc' = "failed" /\ err' = e

\* lines 56-58
MapTrainLabels ==
    /\ pc = "l56"
    /\ LET m == memmap(fs, train_labels_path, "int64", MainMapMode, <<>>)
       IN  /\ fs' = m.fs
           /\ mmapCalls' = Append(mmapCalls, [path |-> train_labels_path, line |-> 56,
                                           mode |-> MainMapMode])
           /\ IF m.err # NoErr
              THEN /\ Fail(AtLine(m.err, 56))
                   /\ UNCHANGED <<train_labels, num_train_samples, train_image_shape>>
              ELSE /\ train_labels' = m.view
                   /\ num_train_samples' = num_samples(m.view)
                   /\ train_image_shape' = image_shape(num_samples(m.view))
                   /\ pc' = "l62" /\ err' = err
    /\ UNCHANGED <<unit, fs0, dirDepth, dirDepth0, checkedPaths, args, X_train, y_train,
                   X_train_flat, testVars, evalVars, saved>>

\* the state a load_from_mmap call leaves behind, in the script and alone
Loaded(r, next) ==
    /\ fs' = r.fs
    /\ mmapCalls' = mmapCalls \o
          [i \in 1..Len(r.calls) |->
              [path |-> r.calls[i], line |-> 12 + i, mode |-> MapMode]]
    /\ checkedPaths' = checkedPaths \cup r.checked
    /\ IF r.err # NoErr
       THEN Fail(r.err) /\ UNCHANGED <<X_train, y_train>>
       ELSE /\ X_train' = r.images /\ y_train' = r.labels
            /\ pc' = next /\ err' = err

\* lines 61-62
LoadTrainingSet ==
    /\ pc = "l62"
    /\ args' = [images_path |-> train_images_path, labels_path |-> train_labels_path,
                image_shape |-> train_image_shape]
    /\ Loaded(load_from_mmap(fs, train_images_path, train_labels_path,
                             train_image_shape), "l63")
    /\ UNCHANGED <<unit, fs0, dirDepth, dirDepth0, train_labels, num_train_samples,
                   train_image_shape, X_train_flat, testVars, evalVars, saved>>

\* line 63
FlattenTrainingSet ==
    /\ pc = "l63"
    /\ LET r == reshape(X_train, <<X_train.shape[1], -1>>)
       IN  IF r.err # NoErr
           THEN Fail(AtLine(r.err, 63)) /\ UNCHANGED X_train_flat
           ELSE X_train_flat' = r.view /\ pc' = "l66" /\ err' = err
    /\ UNCHANGED <<unit, fileVars, dirDepth, train_labels, num_train_samples,
                   train_image_shape, X_train, y_train, testVars, evalVars, saved>>

\* test_dataset.data.numpy().reshape(-1, 28 * 28).astype('float32')
test_features(n) ==
    LET data == View("test_dataset.data", "uint8", "r", <<n, Height, Width>>)
        r == reshape(data, <<-1, Height * Width>>)
    IN  [err |-> r.err,
         view |-> IF r.err = NoErr THEN astype(r.view, "float32") ELSE NoView]

\* lines 66-72: the dataset loader downloads the split, or raises
LoadTestSet ==
    /\ pc = "l66"
    /\ \/ /\ Fail(Err("RuntimeError", "datasets.MNIST", 67, <<"download failed">>))
          /\ UNCHANGED testVars
       \/ \E n \in TestSizes, s \in 0..(Seeds - 1) :
             /\ test_dataset' = [n |-> n, seed |-> s]
             /\ X_test' = test_features(n).view
             /\ y_test' = [i \in 1..n |-> TestLabel(s, i)]
             /\ pc' = "l76" /\ err' = err
    /\ UNCHANGED <<unit, fileVars, dirDepth, trainVars, evalVars, saved>>

\* lines 76-90: DMatrix construction and training, an opaque call that
\* returns a booster or raises
Train ==
    /\ pc = "l76"
    /\ \/ Fail(Err("XGBoostError", "xgboost.train", 90, <<"training failed">>))
       \/ pc' = "l94" /\ err' = err
    /\ UNCHANGED <<unit, fileVars, dirDepth, trainVars, testVars, evalVars, saved>>

\* line 94: one predicted class per test sample
Predict ==
    /\ pc = "l94"
    /\ \E k \in 0..Seeds : y_pred' = Predictions(y_test, k)
    /\ pc' = "l97"
    /\ UNCHANGED <<unit, fileVars, dirDepth, err, trainVars, testVars,
                   accuracy, cm, labels, sample, saved>>

\* lines 97-98
ComputeAccuracy ==
    /\ pc = "l97"
    /\ accuracy' = calculate_accuracy(y_pred, y_test)
    /\ pc' = "l101"
    /\ UNCHANGED <<unit, fileVars, dirDepth, err, trainVars, testVars,
                   y_pred, cm, labels, sample, saved>>

\* lines 101-102
ComputeConfusionMatrix ==
    /\ pc = "l101"
    /\ cm' = confusion_matrix(y_test, y_pred)
    /\ labels' = tick_labels
    /\ pc' = "l103"
    /\ UNCHANGED <<unit, fileVars, dirDepth, err, trainVars, testVars,
                   y_pred, accuracy, sample, saved>>

\* line 103, plot_confusion_matrix (lines 22-31).  seaborn is handed a matrix
\* and tick labels; when their counts differ the plotting library either
\* raises or draws what it has, depending on its version.
PlotConfusionMatrix ==
    /\ pc = "l103"
    /\ dirDepth' = makedirs(dirDepth)
    /\ \/ /\ Len(cm) # Len(labels)
          /\ Fail(Err("ValueError", "sns.heatmap", 25,
                      <<"number of tick locations does not match the number of labels">>))
          /\ saved' = saved
       \/ IF CanSave(dirDepth')
          THEN /\ saved' = saved \cup {confusion_matrix_png}
               /\ pc' = "l107" /\ err' = err
          ELSE /\ Fail(Err("FileNotFoundError", "plt.savefig", 29,
                           <<"No such file or directory", confusion_matrix_png>>))
               /\ saved' = saved
    /\ UNCHANGED <<unit, fileVars, trainVars, testVars, evalVars>>

\* lines 107-110.  np.random.choice(n, size=25, replace=False) raises when
\* n < 25; otherwise the 25 distinct indices are drawn here as a run of
\* consecutive indices (wrapping round) from the first or the last sample.
SamplePredictions ==
    /\ pc = "l107"
    /\ IF Len(y_test) < SampleSize
       THEN /\ Fail(Err("ValueError", "np.random.choice", 107,
                        <<"Cannot take a larger sample than population when replace is False">>))
            /\ sample' = sample
       ELSE \E start \in {0, Len(y_test) - 1} :
               LET ix == [i \in 1..SampleSize |-> (start + i - 1) % Len(y_test)]
               IN  /\ sample' = [indices |-> ix,
                                 labels |-> [i \in 1..SampleSize |-> y_test[ix[i] + 1]],
                                 preds |-> [i \in 1..SampleSize |-> y_pred[ix[i] + 1]]]
                   /\ pc' = "l112" /\ err' = err
    /\ UNCHANGED <<unit, fileVars, dirDepth, trainVars, testVars,
                   y_pred, accuracy, cm, labels, saved>>

\* lines 112-121: the grid is drawn and saved by the script itself, with no
\* makedirs of its own (plot_images, lines 34-46, is never called)
PlotSamples ==
    /\ pc = "l112"
    /\ IF CanSave(dirDepth)
       THEN /\ saved' = saved \cup {images_25_png}
            /\ pc' = "done" /\ err' = err
       ELSE /\ Fail(Err("FileNotFoundError", "plt.savefig", 119,
                        <<"No such file or directory", images_25_png>>))
            /\ saved' = saved
    /\ UNCHANGED <<unit, fileVars, dirDepth, trainVars, testVars, evalVars>>

Next ==
    \/ MapTrainLabels
    \/ LoadTrainingSet
    \/ FlattenTrainingSet
    \/ LoadTestSet
    \/ Train
    \/ Predict
    \/ ComputeAccuracy
    \/ ComputeConfusionMatrix
    \/ PlotConfusionMatrix
    \/ SamplePredictions
    \/ PlotSamples

Spec == Init /\ [][Next]_vars

(* ------------------------- the functions alone ------------------------ *)
\* The classes the metric functions' inputs are drawn from: 3, 0, 7, 4, ...
DrawnClass(k) == (3 + 7 * k) % NumClass
ClassPool == {DrawnClass(k) : k \in 0..(DrawnClasses - 1)}
Vectors(n) == [1..n -> ClassPool]

\* load_from_mmap on any two paths, any file state and any sample count
InitLoad ==
    /\ unit = "load_from_mmap" /\ pc = "call"
    /\ \E imf \in ImageFiles, lf \in LabelFiles :
          fs = [p \in Paths |-> IF p = train_images_path THEN imf ELSE lf]
    /\ fs0 = fs /\ dirDepth = 0 /\ dirDepth0 = 0
    /\ \E ip \in Paths, lp \in Paths, n \in 0..MaxL :
          args = [images_path |-> ip, labels_path |-> lp, image_shape |-> image_shape(n)]
    /\ err = NoErr /\ mmapCalls = <<>> /\ checkedPaths = {}
    /\ train_labels = NoView /\ num_train_samples = 0 /\ train_image_shape = <<>>
    /\ X_train = NoView /\ y_train = NoView /\ X_train_flat = NoView
    /\ test_dataset = NoData /\ X_test = NoView /\ y_test = <<>>
    /\ y_pred = <<>> /\ accuracy = NoAccuracy /\ cm = <<>> /\ labels = <<>>
    /\ sample = NoSample /\ saved = {}

NoFiles == [p \in Paths |-> NoFile]

\* the two metric calls on any pair of equal-length vectors
InitMetric ==
    /\ unit \in {"calculate_accuracy", "confusion_matrix"} /\ pc = "call"
    /\ fs = NoFiles /\ fs0 = fs /\ dirDepth = 0 /\ dirDepth0 = 0
    /\ \E n \in 1..MaxTest : y_test \in Vectors(n) /\ y_pred \in Vectors(n)
    /\ err = NoErr /\ mmapCalls = <<>> /\ checkedPaths = {} /\ args = NoArgs
    /\ train_labels = NoView /\ num_train_samples = 0 /\ train_image_shape = <<>>
    /\ X_train = NoView /\ y_train = NoView /\ X_train_flat = NoView
    /\ test_dataset = NoData /\ X_test = NoView
    /\ accuracy = NoAccuracy /\ cm = <<>> /\ labels = <<>>
    /\ sample = NoSample /\ saved = {}

\* the two flattenings on any tensor of 1..MaxL samples
InitFlatten ==
    /\ unit \in {"flatten_train", "flatten_test"} /\ pc = "call"
    /\ dirDepth = 0 /\ dirDepth0 = 0
    /\ \E n \in 1..MaxL, s \in 0..(Seeds - 1) :
          IF unit = "flatten_train"
          THEN /\ fs = [NoFiles EXCEPT ![train_images_path] =
                                           File(ImageWords(n * SampleWords, s))]
               /\ X_train = View(train_images_path, "float32", MapMode, image_shape(n))
               /\ test_dataset = NoData
          ELSE /\ fs = NoFiles
               /\ X_train = NoView
               /\ test_dataset = [n |-> n, seed |-> s]
    /\ fs0 = fs
    /\ err = NoErr /\ mmapCalls = <<>> /\ checkedPaths = {} /\ args = NoArgs
    /\ train_labels = NoView /\ num_train_samples = 0 /\ train_image_shape = <<>>
    /\ y_train = NoView /\ X_train_flat = NoView
    /\ X_test = NoView /\ y_test = <<>>
    /\ y_pred = <<>> /\ accuracy = NoAccuracy /\ cm = <<>> /\ labels = <<>>
    /\ sample = NoSample /\ saved = {}

UnitInit == InitLoad \/ InitMetric \/ InitFlatten

\* lines 10-15
CallLoad ==
    /\ unit = "load_from_mmap" /\ pc = "call"
    /\ Loaded(load_from_mmap(fs, args.images_path, args.labels_path,
                             args.image_shape), "returned")
    /\ UNCHANGED <<unit, fs0, args, dirDepth, dirDepth0, train_labels, num_train_samples,
                   train_image_shape, X_train_flat, testVars, evalVars, saved>>

\* lines 18-19
CallAccuracy ==
    /\ unit = "calculate_accuracy" /\ pc = "call"
    /\ accuracy' = calculate_accuracy(y_pred, y_test)
    /\ pc' = "returned"
    /\ UNCHANGED <<unit, fileVars, dirDepth, err, trainVars, testVars,
                   y_pred, cm, labels, sample, saved>>

\* lines 101-102
CallConfusionMatrix ==
    /\ unit = "confusion_matrix" /\ pc = "call"
    /\ cm' = confusion_matrix(y_test, y_pred)
    /\ labels' = tick_labels
    /\ pc' = "returned"
    /\ UNCHANGED <<unit, fileVars, dirDepth, err, trainVars, testVars,
                   y_pred, accuracy, sample, saved>>

\* line 63
CallFlattenTrain ==
    /\ unit = "flatten_train" /\ pc = "call"
    /\ LET r == reshape(X_train, <<X_train.shape[1], -1>>)
       IN  IF r.err # NoErr
           THEN Fail(AtLine(r.err, 63)) /\ UNCHANGED X_train_flat
           ELSE X_train_flat' = r.view /\ pc' = "returned" /\ err' = err
    /\ UNCHANGED <<unit, fileVars, dirDepth, train_labels, num_train_samples,
                   train_image_shape, X_train, y_train, testVars, evalVars, saved>>

\* line 71
CallFlattenTest ==
    /\ unit = "flatten_test" /\ pc = "call"
    /\ LET r == test_features(test_dataset.n)
       IN  IF r.err # NoErr
           THEN Fail(AtLine(r.err, 71)) /\ UNCHANGED X_test
           ELSE X_test' = r.view /\ pc' = "returned" /\ err' = err
    /\ UNCHANGED <<unit, fileVars, dirDepth, trainVars, test_dataset, y_test,
                   evalVars, saved>>

UnitNext ==
    \/ CallLoad
    \/ CallAccuracy
    \/ CallConfusionMatrix
    \/ CallFlattenTrain
    \/ CallFlattenTest

UnitSpec == UnitInit /\ [][UnitNext]_vars

(* ------------------------------- claims ------------------------------- *)
Main == unit = "__main__"
\* L: the number of 64-bit integers the label file held at program start
LabelCount == Len(fs0[train_labels_path].words) \div ItemWords("int64")
WholeLabels == Len(fs0[train_labels_path].words) % ItemWords("int64") = 0
ImageBytes == FileBytes(fs0[train_images_path])
BothExist == fs0[train_images_path].exists /\ fs0[train_labels_path].exists
Classes == 0..(NumClass - 1)

\* C1: a load_from_mmap call with at least one of its two paths missing
\* raises the missing-file error, whose message holds both paths, and has
\* called np.memmap on neither file.
C1_MissingFileRaisesBeforeMapping ==
    (/\ unit = "load_from_mmap" /\ pc # "call"
     /\ (~fs0[args.images_path].exists \/ ~fs0[args.labels_path].exists))
    => /\ pc = "failed"
       /\ err.kind = "FileNotFoundError"
       /\ err.raisedBy = "load_from_mmap"
       /\ {args.images_path, args.labels_path} \subseteq Range(err.msg)
       /\ mmapCalls = <<>>
       /\ X_train = NoView /\ y_train = NoView

\* the images exist and only the labels are missing: the second operand of
\* the check decides
C1_LabelsMissingCallRaised ==
    /\ unit = "load_from_mmap" /\ pc = "failed"
    /\ args.images_path # args.labels_path
    /\ fs0[args.images_path].exists /\ ~fs0[args.labels_path].exists
    /\ err.raisedBy = "load_from_mmap"

\* C2: in every run of the script no np.memmap call on a training file is
\* made before the existence of both paths has been checked, and a run that
\* a missing training file ends is ended by the error naming both paths,
\* never by an error a mapping call raised.
C2_NoMappingBeforeExistenceCheck ==
    Main =>
       /\ (mmapCalls # <<>> => checkedPaths = Paths)
       /\ ((pc = "failed" /\ ~BothExist) =>
              /\ err = MissingFileError(train_images_path, train_labels_path)
              /\ err.raisedBy # "np.memmap")

\* C3: the shape the script passes to load_from_mmap is (L, 1, 28, 28), and
\* the tensor and the label vector that call returns both have length L.
C3_LeadingDimensionIsLabelCount ==
    Main =>
       /\ (args # NoArgs =>
              /\ WholeLabels
              /\ args.image_shape = <<LabelCount, 1, 28, 28>>)
       /\ (X_train # NoView =>
              /\ X_train.shape = <<LabelCount, 1, 28, 28>>
              /\ X_train.shape[1] = ViewLen(y_train)
              /\ ViewLen(y_train) = LabelCount)

C3_LoadedTwoSamples ==
    /\ Main /\ pc = "l63" /\ LabelCount = 2
    /\ X_train # NoView /\ ViewLen(y_train) = 2

\* C4: flattening the (N, 1, 28, 28) training tensor gives an (N, 784)
\* matrix with flat[n][28*h + w] = tensor[n][0][h][w], row n being sample
\* n's pixels in file order; the test set's (N, 28, 28) data reshaped to
\* (-1, 784) likewise has flat[n][28*h + w] = data[n][h][w].
C4_FlattenIsRowMajor ==
    /\ (unit = "flatten_train" /\ pc # "call") =>
          /\ pc = "returned"
          /\ X_train_flat.shape = <<X_train.shape[1], 784>>
          /\ \A n \in 0..(X_train.shape[1] - 1), h \in 0..27, w \in 0..27 :
                /\ Read(X_train_flat, <<n, 28 * h + w>>) = Read(X_train, <<n, 0, h, w>>)
                /\ Read(X_train_flat, <<n, 28 * h + w>>)
                      = fs[train_images_path].words[784 * n + 28 * h + w + 1]
    /\ (unit = "flatten_test" /\ pc # "call") =>
          /\ pc = "returned"
          /\ X_test.shape = <<test_dataset.n, 784>>
          /\ \A n \in 0..(test_dataset.n - 1), h \in 0..27, w \in 0..27 :
                Read(X_test, <<n, 28 * h + w>>)
                   = Read(View("test_dataset.data", "uint8", "r",
                               <<test_dataset.n, 28, 28>>), <<n, h, w>>)

C4_FlattenedTwoSamples ==
    /\ unit = "flatten_train" /\ pc = "returned"
    /\ X_train.shape[1] = 2 /\ X_train_flat.shape = <<2, 784>>

\* C5: the confusion matrix the script builds is 10 x 10 and entry (t, p) is
\* the number of samples of true class t predicted as class p, whichever
\* classes occur in the data.
C5_MatrixIndexedByClass ==
    (unit = "confusion_matrix" /\ pc = "returned") =>
       /\ Len(cm) = NumClass
       /\ \A t \in Classes : Len(cm[t + 1]) = NumClass
       /\ \A t \in Classes, p \in Classes :
             cm[t + 1][p + 1] =
                Cardinality({k \in 1..Len(y_test) : y_test[k] = t /\ y_pred[k] = p})

\* the row of the matrix that stands for class t: its rank among the classes
\* that occur (0: no row, the class occurs in neither vector)
RowOfClass(t) ==
    LET present == Range(y_test) \cup Range(y_pred)
    IN  IF t \in present THEN Cardinality({c \in present : c < t}) + 1 ELSE 0
RowSumOfClass(t) == IF RowOfClass(t) = 0 THEN 0 ELSE SumSeq(cm[RowOfClass(t)])

\* C6: for every pair of equal-length vectors the sum of the matrix row of
\* class t is the number of samples whose true class is t, and the sum of
\* all entries is the number of samples.
C6_RowSumsAreClassCounts ==
    (unit = "confusion_matrix" /\ pc = "returned") =>
       /\ \A t \in Classes :
             RowSumOfClass(t) = Cardinality({k \in 1..Len(y_test) : y_test[k] = t})
       /\ SumSeq([i \in 1..Len(cm) |-> SumSeq(cm[i])]) = Len(y_test)

\* a true class that is never predicted and a predicted class that is never
\* true: the row sums and the column sums differ
C6_MatrixWithUnevenClasses ==
    /\ unit = "confusion_matrix" /\ pc = "returned"
    /\ Len(y_test) = MaxTest
    /\ Range(y_test) \ Range(y_pred) # {}
    /\ Range(y_pred) \ Range(y_test) # {}

Matches == Cardinality({i \in 1..Len(y_test) : y_pred[i] = y_test[i]})

\* C7: calculate_accuracy(predictions, labels) is the number of positions
\* where the two agree divided by the number of samples: 1.0 for identical
\* vectors, 0.0 when no position agrees, and the same with the two
\* arguments exchanged.
C7_AccuracyIsMatchFraction ==
    (unit = "calculate_accuracy" /\ pc = "returned") =>
       /\ accuracy.den > 0
       /\ accuracy.num * Len(y_test) = Matches * accuracy.den
       /\ (y_pred = y_test => accuracy.num = accuracy.den)
       /\ (Matches = 0 => accuracy.num = 0)
       /\ LET swapped == calculate_accuracy(y_test, y_pred)
          IN  swapped.num * accuracy.den = accuracy.num * swapped.den

C7_SomeRightSomeWrong ==
    /\ unit = "calculate_accuracy" /\ pc = "returned"
    /\ Matches > 0 /\ Matches < Len(y_test)

\* C8: every mapping of a training file is opened read-only, and in every
\* state of a run both files hold what they held at program start.
C8_TrainingFilesNeverWritten ==
    Main =>
       /\ fs = fs0
       /\ \A i \in 1..Len(mmapCalls) : mmapCalls[i].mode = "r"
       /\ \A v \in {train_labels, X_train, y_train, X_train_flat} :
             v.base \in Paths => v.mode = "r"

C8_RunDoneAfterThreeMappings ==
    /\ Main /\ pc = "done" /\ Len(mmapCalls) = 3
    /\ X_train_flat.base = train_images_path

\* C9: from any initial state of ./image/gbdt/large, the directory exists
\* whenever one of the two output files is about to be saved or has been
\* saved, so no save fails for a missing directory.
C9_DirectoryMadeBeforeSaves ==
    Main =>
       /\ err.raisedBy # "plt.savefig"
       /\ (saved # {} => dirDepth = Len(OutDir))
       /\ (pc \in {"l107", "l112", "done"} =>
              confusion_matrix_png \in saved /\ dirDepth = Len(OutDir))
       /\ (pc = "done" => saved = {confusion_matrix_png, images_25_png})

C9_BothSavedFromAbsentDirectory ==
    /\ Main /\ pc = "done" /\ dirDepth0 = 0
    /\ saved = {confusion_matrix_png, images_25_png}

\* C10 as stated: when both files exist and the image file's length is not
\* L * 1 * 28 * 28 * 4 bytes, shorter or longer, the run is ended by an
\* error the mapping call in load_from_mmap raises, before training.  It is
\* stated here for the label files that reach load_from_mmap (L >= 1).
C10_AnyLengthMismatchRaises ==
    (Main /\ BothExist /\ WholeLabels /\ LabelCount >= 1
          /\ ImageBytes # LabelCount * 1 * 28 * 28 * 4)
    => \/ pc \in {"l56", "l62"}
       \/ /\ pc = "failed"
          /\ err.raisedBy = "np.memmap" /\ err.line \in {13, 14}

\* C10, amended: with L >= 1 labels, an image file shorter than L * 3136
\* bytes ends the run with the ValueError of the image mapping call in
\* load_from_mmap; a longer one maps without error as its first L * 3136
\* bytes and the run goes on; with L = 0 the script's own label mapping on
\* line 56 ends the run.
C10_ShortRaisesLongMaps ==
    (Main /\ BothExist /\ WholeLabels /\ pc \notin {"l56", "l62"}) =>
       /\ (LabelCount >= 1 /\ ImageBytes < LabelCount * 3136) =>
             /\ pc = "failed"
             /\ err.kind = "ValueError" /\ err.raisedBy = "np.memmap"
             /\ err.line = 13
             /\ X_train = NoView
       /\ (LabelCount >= 1 /\ ImageBytes > LabelCount * 3136) =>
             /\ X_train = View(train_images_path, "float32", "r",
                               <<LabelCount, 1, 28, 28>>)
             /\ Prod(X_train.shape) * 4 < ImageBytes
             /\ err.line \notin {12, 13, 14}
       /\ LabelCount = 0 =>
             /\ pc = "failed"
             /\ err.kind = "ValueError" /\ err.raisedBy = "np.memmap"
             /\ err.line = 56

C10_TrainedOnLongerFile ==
    /\ Main /\ pc = "l94" /\ LabelCount >= 1
    /\ ImageBytes > LabelCount * 3136
====
